---- MODULE Spec2Model ----
(***************************************************************************)
(* Node registry, tag protocol and tag-discriminated serialization of the  *)
(* nanodsl / typedsl packages.                                             *)
(*                                                                         *)
(* Python strings are sequences of one-character strings, so that the tag  *)
(* computations (lower-casing, suffix removal, joining, pattern matching)  *)
(* are carried out character by character as the code does.                *)
(***************************************************************************)
EXTENDS Integers, Sequences, FiniteSets, TLC

VARIABLES
    variant,           \* which package is loaded: "nanodsl" or "typedsl"
    registry,          \* Node.registry: tag -> class
    cls_tag,           \* cls._tag of every class whose declaration succeeded
    typedef_registry,  \* TypeDef registry: tag -> descriptor class
    custom_types,      \* registered marker types: marker -> descriptor
    threads,           \* class statements in progress in concurrent threads
    result             \* outcome of the call the client made last

vars == <<variant, registry, cls_tag, typedef_registry, custom_types, threads, result>>

(***************************************************************************)
(* Strings                                                                 *)
(***************************************************************************)
LowerLetters ==
    {"a","b","c","d","e","f","g","h","i","j","k","l","m",
     "n","o","p","q","r","s","t","u","v","w","x","y","z"}

Digits == {"0","1","2","3","4","5","6","7","8","9"}

UpperSeq ==
    <<"A","B","C","D","E","F","G","H","I","J","K","L","M",
      "N","O","P","Q","R","S","T","U","V","W","X","Y","Z">>

LowerSeq ==
    <<"a","b","c","d","e","f","g","h","i","j","k","l","m",
      "n","o","p","q","r","s","t","u","v","w","x","y","z">>

\* str.lower() on one character
LowerChar(c) ==
    IF \E i \in 1..Len(UpperSeq) : UpperSeq[i] = c
    THEN LowerSeq[CHOOSE i \in 1..Len(UpperSeq) : UpperSeq[i] = c]
    ELSE c

\* str.lower()
Lower(s) == [i \in 1..Len(s) |-> LowerChar(s[i])]

\* str.endswith(suffix)
EndsWith(s, suffix) ==
    /\ Len(s) >= Len(suffix)
    /\ SubSeq(s, Len(s) - Len(suffix) + 1, Len(s)) = suffix

\* str.removesuffix(suffix): removes the suffix once, when present
RemoveSuffix(s, suffix) ==
    IF Len(suffix) > 0 /\ EndsWith(s, suffix)
    THEN SubSeq(s, 1, Len(s) - Len(suffix))
    ELSE s

\* the test made for a leading "__"
StartsWithUnderscore_dunder(s) == Len(s) > 1 /\ s[1] = "_" /\ s[2] = "_"

\* str.startswith("_")
StartsWithUnderscore(s) == Len(s) > 0 /\ s[1] = "_"

RECURSIVE Join(_, _)
\* delimiter.join(parts)
Join(parts, delimiter) ==
    IF Len(parts) = 0 THEN <<>>
    ELSE IF Len(parts) = 1 THEN parts[1]
    ELSE parts[1] \o delimiter \o Join(Tail(parts), delimiter)

NODE_SUFFIX == <<"n","o","d","e">>
DOT   == <<".">>
TAG   == <<"t","a","g">>
REF   == <<"r","e","f">>
ID    == <<"i","d">>

(***************************************************************************)
(* Tag validation (nanodsl)                                                *)
(***************************************************************************)
TagChars == LowerLetters \cup Digits \cup {"_", "-"}

\* _TAG_PATTERN.match(tag) for ^[a-z][a-z0-9_-]*$ : as in Python's re, the
\* "$" matches at the end of the string and also just before a newline that
\* is the last character of the string.
TagPatternMatches(tag) ==
    \E end \in {Len(tag)} \cup
               (IF Len(tag) > 0 /\ tag[Len(tag)] = "\n" THEN {Len(tag) - 1} ELSE {}) :
        /\ end >= 1
        /\ tag[1] \in LowerLetters
        /\ \A i \in 2..end : tag[i] \in TagChars

\* _validate_tag(tag): TRUE when no ValueError is raised
_validate_tag(tag) == TagPatternMatches(tag)

(***************************************************************************)
(* Python values                                                           *)
(***************************************************************************)
PyStr(s)           == [t |-> "str", s |-> s]
PyInt(n)           == [t |-> "int", n |-> n]
PyNone             == [t |-> "none"]
PyList(items)      == [t |-> "list", items |-> items]
PyTuple(items)     == [t |-> "tuple", items |-> items]
PyDict(m)          == [t |-> "dict", m |-> m]
Ref(id)          == [t |-> "ref", id |-> id]
NodeObj(cls, f)  == [t |-> "node", cls |-> cls, f |-> f]
TypeDefObj(cls, f) == [t |-> "typedef", cls |-> cls, f |-> f]
ClassObj(cls)    == [t |-> "class", cls |-> cls]
\* a raised exception; tag is the tag the message names (<<>> when none)
Raised(exc, tag) == [t |-> "error", exc |-> exc, tag |-> tag]

IsError(v) == v.t = "error"

\* a one-entry dict
Dict1(k, v) == PyDict([x \in {k} |-> v])

(***************************************************************************)
(* Declared classes                                                        *)
(***************************************************************************)
Field(name)             == [name |-> name, has_default |-> FALSE, default |-> PyNone]
FieldDefault(name, dflt) == [name |-> name, has_default |-> TRUE, default |-> dflt]

\* class <name>(Node[...], tag=<tag>) / class <name>(Node[...])
NanoClass(name, has_tag, tag, fields) ==
    [name |-> name, has_tag |-> has_tag, tag |-> tag, fields |-> fields]

\* the class statements a nanodsl program may execute
NanoClasses == <<
    NanoClass(<<"L","i","t">>, FALSE, <<>>, <<Field(<<"v">>)>>),
    NanoClass(<<"A","d","d","N","o","d","e">>, FALSE, <<>>,
              <<Field(<<"l">>), Field(<<"r">>)>>),
    NanoClass(<<"A","d","d">>, FALSE, <<>>,
              <<Field(<<"l">>), FieldDefault(<<"r">>, PyInt(0))>>),
    NanoClass(<<"T","a","g","g","e","d">>, TRUE, <<"t","g","_","1">>,
              <<Field(TAG)>>),
    NanoClass(<<"M","u","l">>, TRUE, <<"M","u","l">>, <<Field(<<"x">>)>>),
    NanoClass(<<"D","e","r","e","f">>, TRUE, REF, <<Field(ID)>>),
    NanoClass(<<"N","o","d","e">>, FALSE, <<>>, <<>>),
    NanoClass(<<"B","o","x">>, FALSE, <<>>,
              <<Field(<<"i","t">>), Field(<<"_","i","d">>)>>),
    NanoClass(<<"I","n","t","N","o","d","e">>, FALSE, <<>>, <<Field(<<"v">>)>>),
    NanoClass(<<"N","l">>, TRUE, <<"n","l","\n">>, <<>>)
>>

\* class <name>(Node[...], **kwargs): kwargs in the order written
SigClass(name, kwargs) == [name |-> name, kwargs |-> kwargs]
Kw(key, value) == [key |-> key, value |-> value]

CALCULATOR == <<"c","a","l","c","u","l","a","t","o","r">>
ADD        == <<"a","d","d">>

\* the class statements a typedsl program may execute
SigClasses == <<
    SigClass(<<"A","d","d","V","1">>,
             <<Kw("ns", CALCULATOR), Kw("name", ADD), Kw("version", <<"1",".","0">>)>>),
    SigClass(<<"A","d","d","V","2">>,
             <<Kw("ns", CALCULATOR), Kw("name", ADD), Kw("version", <<"2",".","0">>)>>),
    SigClass(<<"A","d","d","N","o","d","e">>, <<>>),
    SigClass(<<"P","l","u","s">>, <<Kw("tag", ADD)>>),
    SigClass(<<"X","1">>, <<Kw("p", <<"a",".","b">>), Kw("q", <<"c">>)>>),
    SigClass(<<"X","2">>, <<Kw("q", <<"a">>), Kw("p", <<"b",".","c">>)>>),
    SigClass(<<"N","o","d","e">>, <<>>),
    SigClass(<<"A","d","d">>, <<>>)
>>

NanoIds == 1..Len(NanoClasses)
SigIds  == 1..Len(SigClasses)

(***************************************************************************)
(* Node.__init_subclass__                                                  *)
(***************************************************************************)
\* the registry rebound to a fresh one-entry dict instead of updated
RegistryPut_rebind(reg, tag, cls) == [t \in {tag} |-> cls]

\* registry[tag] = cls
RegistryPut(reg, tag, cls) ==
    [t \in DOMAIN reg \cup {tag} |-> IF t = tag THEN cls ELSE reg[t]]

\* the suffix removed before lower-casing
DefaultTag_swapped(name) == Lower(RemoveSuffix(name, NODE_SUFFIX))

\* cls.__name__.lower().removesuffix("node")
DefaultTag(name) == RemoveSuffix(Lower(name), NODE_SUFFIX)

\* nanodsl: cls._tag = tag if tag is not None else <default>
NanoTag(c) ==
    IF NanoClasses[c].has_tag THEN NanoClasses[c].tag
    ELSE DefaultTag(NanoClasses[c].name)

\* typedsl: the str() of the kwargs values, in order
SigParts(c) == [i \in 1..Len(SigClasses[c].kwargs) |-> SigClasses[c].kwargs[i].value]

\* the last signature component left out of the tag
SigTag_truncated(c) ==
    IF Len(SigClasses[c].kwargs) > 1
    THEN Join(SubSeq(SigParts(c), 1, Len(SigParts(c)) - 1), DOT)
    ELSE IF Len(SigClasses[c].kwargs) = 1 THEN SigParts(c)[1]
    ELSE DefaultTag(SigClasses[c].name)

\* typedsl: ".".join(parts) if kwargs else <default>
SigTag(c) ==
    IF Len(SigClasses[c].kwargs) > 0 THEN Join(SigParts(c), DOT)
    ELSE DefaultTag(SigClasses[c].name)

\* the collision test with the identity comparison inverted
Collides_inverted(reg, tag, c) == tag \in DOMAIN reg /\ reg[tag] = c

\* if existing := Node.registry.get(tag): if existing is not cls: raise
Collides(reg, tag, c) == tag \in DOMAIN reg /\ reg[tag] # c

\* the check-then-insert tail shared by both packages
Register(c, tag) ==
    IF Collides(registry, tag, c)
    THEN /\ result' = [op |-> "declare", cls |-> c, tag |-> tag,
                       out |-> Raised("ValueError:collision", tag)]
         /\ UNCHANGED <<registry, cls_tag>>
    ELSE /\ registry' = RegistryPut(registry, tag, c)
         /\ cls_tag' = RegistryPut(cls_tag, c, tag)
         /\ result' = [op |-> "declare", cls |-> c, tag |-> tag, out |-> PyNone]

\* nanodsl Node.__init_subclass__(cls, tag): a class statement, or the hook
\* run again on a class that exists
NanoDeclare(c) ==
    /\ variant = "nanodsl"
    /\ result.op = "idle"
    /\ LET tag == NanoTag(c) IN
         IF ~_validate_tag(tag)
         THEN /\ result' = [op |-> "declare", cls |-> c, tag |-> tag,
                            out |-> Raised("ValueError:invalid_tag", tag)]
              /\ UNCHANGED <<registry, cls_tag>>
         ELSE Register(c, tag)
    /\ UNCHANGED <<variant, typedef_registry, custom_types, threads>>

\* typedsl Node.__init_subclass__(cls, **kwargs)
SigDeclare(c) ==
    /\ variant = "typedsl"
    /\ result.op = "idle"
    /\ Register(c, SigTag(c))
    /\ UNCHANGED <<variant, typedef_registry, custom_types, threads>>

\* Node.registry.get(tag)
Lookup(tag) ==
    /\ result.op = "idle"
    /\ result' = [op |-> "lookup", tag |-> tag,
                  out |-> IF tag \in DOMAIN registry THEN ClassObj(registry[tag]) ELSE PyNone]
    /\ UNCHANGED <<variant, registry, cls_tag, typedef_registry, custom_types, threads>>

(***************************************************************************)
(* Type descriptors (TypeDef and its variants)                             *)
(***************************************************************************)
TYPE_SUFFIX == <<"t","y","p","e">>

\* class <name>(TypeDef, tag=<tag>): annotated is "__annotations__" in cls.__dict__
TypeDefClass(name, has_tag, tag, annotated, fields) ==
    [name |-> name, has_tag |-> has_tag, tag |-> tag,
     annotated |-> annotated, fields |-> fields]

IntType       == 1
StrType       == 2
NoneType      == 3
ListType      == 4
DictType      == 5
NodeType      == 6
RefType       == 7
UnionType     == 8
TypeParameter == 9

\* the descriptor classes the types module declares when it is imported
TypeDefClasses == <<
    TypeDefClass(<<"I","n","t","T","y","p","e">>, TRUE, <<"i","n","t">>, TRUE, <<>>),
    TypeDefClass(<<"S","t","r","T","y","p","e">>, TRUE, <<"s","t","r">>, TRUE, <<>>),
    TypeDefClass(<<"N","o","n","e","T","y","p","e">>, TRUE, <<"n","o","n","e">>, TRUE, <<>>),
    TypeDefClass(<<"L","i","s","t","T","y","p","e">>, TRUE, <<"l","i","s","t">>, TRUE,
                 <<Field(<<"e","l","e","m","e","n","t">>)>>),
    TypeDefClass(<<"D","i","c","t","T","y","p","e">>, TRUE, <<"d","i","c","t">>, TRUE,
                 <<Field(<<"k","e","y">>), Field(<<"v","a","l","u","e">>)>>),
    TypeDefClass(<<"N","o","d","e","T","y","p","e">>, TRUE, <<"n","o","d","e">>, TRUE,
                 <<Field(<<"r","e","t","u","r","n","s">>)>>),
    TypeDefClass(<<"R","e","f","T","y","p","e">>, TRUE, REF, TRUE,
                 <<Field(<<"t","a","r","g","e","t">>)>>),
    TypeDefClass(<<"U","n","i","o","n","T","y","p","e">>, TRUE, <<"u","n","i","o","n">>, TRUE,
                 <<Field(<<"o","p","t","i","o","n","s">>)>>),
    TypeDefClass(<<"T","y","p","e","P","a","r","a","m","e","t","e","r">>, TRUE,
                 <<"p","a","r","a","m">>, TRUE,
                 <<Field(<<"n","a","m","e">>), FieldDefault(<<"b","o","u","n","d">>, PyNone)>>)
>>

TypeDefIds == 1..Len(TypeDefClasses)

\* cls._tag = tag or cls.__name__.lower().removesuffix("type")
TypeDefTag(c) ==
    IF TypeDefClasses[c].has_tag /\ Len(TypeDefClasses[c].tag) > 0
    THEN TypeDefClasses[c].tag
    ELSE RemoveSuffix(Lower(TypeDefClasses[c].name), TYPE_SUFFIX)

\* TypeDef.__init_subclass__(cls, tag) applied to the registry reg
TypeDefInitSubclass(reg, c) ==
    IF ~TypeDefClasses[c].annotated THEN reg
    ELSE RegistryPut(reg, TypeDefTag(c), c)

RECURSIVE TypeDefImport(_)
\* the registry after the first n class statements of the types module
TypeDefImport(n) ==
    IF n = 0 THEN <<>>
    ELSE TypeDefInitSubclass(TypeDefImport(n - 1), n)

Fn1(k, v) == [x \in {k} |-> v]
Fn2(k1, v1, k2, v2) == [x \in {k1, k2} |-> IF x = k1 THEN v1 ELSE v2]

IntT  == TypeDefObj(IntType, <<>>)
StrT  == TypeDefObj(StrType, <<>>)
NoneT == TypeDefObj(NoneType, <<>>)
ListT(e)     == TypeDefObj(ListType, Fn1(<<"e","l","e","m","e","n","t">>, e))
DictT(k, v)  == TypeDefObj(DictType, Fn2(<<"k","e","y">>, k, <<"v","a","l","u","e">>, v))
NodeT(r)     == TypeDefObj(NodeType, Fn1(<<"r","e","t","u","r","n","s">>, r))
RefT(x)      == TypeDefObj(RefType, Fn1(<<"t","a","r","g","e","t">>, x))
\* options is a tuple
UnionT(opts) == TypeDefObj(UnionType, Fn1(<<"o","p","t","i","o","n","s">>, PyTuple(opts)))
ParamT(n, b) == TypeDefObj(TypeParameter,
                           Fn2(<<"n","a","m","e">>, PyStr(n), <<"b","o","u","n","d">>, b))

(***************************************************************************)
(* JSONAdapter: encoding                                                   *)
(***************************************************************************)
\* the names of the fields kept by "if not field.name.startswith('_')"
PublicNames(fields) ==
    {fields[i].name : i \in {j \in 1..Len(fields) : ~StartsWithUnderscore(fields[j].name)}}

\* the tag written first, so that a field of the same name overwrites it
SetTag_first(res, tag) ==
    [k \in DOMAIN res \cup {TAG} |-> IF k \in DOMAIN res THEN res[k] ELSE PyStr(tag)]

\* result["tag"] = tag, applied to the dict built from the fields
SetTag(res, tag) ==
    [k \in DOMAIN res \cup {TAG} |-> IF k = TAG THEN PyStr(tag) ELSE res[k]]

RECURSIVE serialize_node(_), serialize_typedef(_), _serialize_value(_)

\* JSONAdapter.serialize_node
serialize_node(node) ==
    PyDict(SetTag([k \in PublicNames(NanoClasses[node.cls].fields) |->
                      _serialize_value(node.f[k])],
                  cls_tag[node.cls]))

\* JSONAdapter.serialize_typedef
serialize_typedef(typedef) ==
    PyDict(SetTag([k \in PublicNames(TypeDefClasses[typedef.cls].fields) |->
                      _serialize_value(typedef.f[k])],
                  TypeDefTag(typedef.cls)))

\* JSONAdapter._serialize_value
_serialize_value(value) ==
    IF value.t = "node" THEN serialize_node(value)
    ELSE IF value.t = "ref" THEN PyDict(Fn2(TAG, PyStr(REF), ID, value.id))
    ELSE IF value.t = "typedef" THEN serialize_typedef(value)
    ELSE IF value.t \in {"list", "tuple"}
         THEN PyList([i \in 1..Len(value.items) |-> _serialize_value(value.items[i])])
    ELSE IF value.t = "dict"
         THEN PyDict([k \in DOMAIN value.m |-> _serialize_value(value.m[k])])
    ELSE value

\* serialization.to_dict
to_dict(obj) ==
    IF obj.t = "ref" THEN PyDict(Fn2(TAG, PyStr(REF), ID, obj.id))
    ELSE IF obj.t = "node" THEN serialize_node(obj)
    ELSE IF obj.t = "typedef" THEN serialize_typedef(obj)
    ELSE Raised("ValueError:cannot_serialize", <<>>)

(***************************************************************************)
(* JSONAdapter: decoding                                                   *)
(***************************************************************************)
Skip == [t |-> "skip"]

HasError(seq) == \E i \in 1..Len(seq) : IsError(seq[i])

\* the exception raised first when the elements are evaluated in order
FirstError(seq) ==
    seq[CHOOSE i \in 1..Len(seq) :
            /\ IsError(seq[i])
            /\ \A j \in 1..(i - 1) : ~IsError(seq[j])]

\* tag == "ref"
IsRefTag(tag) == tag.t = "str" /\ tag.s = REF

\* a list or dict used as a dictionary key raises TypeError
Unhashable(tag) == tag.t \in {"list", "dict"}

\* tag in registry / registry.get(tag) is not None
InRegistry(reg, tag) == tag.t = "str" /\ tag.s \in DOMAIN reg

\* the tag as an error message shows it
TagText(tag) == IF tag.t = "str" THEN tag.s ELSE <<>>

\* the reference built from the tag of the mapping
MakeRef_tag(data) ==
    IF ID \in DOMAIN data.m THEN Ref(data.m[TAG]) ELSE Raised("KeyError", ID)

\* Ref(id=data["id"])
MakeRef(data) ==
    IF ID \in DOMAIN data.m THEN Ref(data.m[ID]) ELSE Raised("KeyError", ID)

\* cls(**given) of a dataclass: a field neither given nor defaulted is a TypeError
Construct(t, cls, fields, given) ==
    IF \E i \in 1..Len(fields) :
           ~fields[i].has_default /\ fields[i].name \notin DOMAIN given
    THEN Raised("TypeError", <<>>)
    ELSE [t |-> t, cls |-> cls,
          f |-> [nm \in {fields[i].name : i \in 1..Len(fields)} |->
                    IF nm \in DOMAIN given THEN given[nm]
                    ELSE (CHOOSE fl \in {fields[i] : i \in 1..Len(fields)} :
                              fl.name = nm).default]]

RECURSIVE deserialize_node(_), deserialize_typedef(_), _deserialize_value(_)

\* the dict comprehension over fields(cls): one decoded value per declared
\* public field present in data, in declared order
DecodeFields(fields, data) ==
    [i \in 1..Len(fields) |->
        IF ~StartsWithUnderscore(fields[i].name) /\ fields[i].name \in DOMAIN data.m
        THEN _deserialize_value(data.m[fields[i].name])
        ELSE Skip]

\* the keyword arguments the comprehension produced
Given(fields, vals) ==
    [nm \in {fields[i].name : i \in {j \in 1..Len(fields) : vals[j] # Skip}} |->
        vals[CHOOSE i \in 1..Len(fields) : fields[i].name = nm /\ vals[i] # Skip]]

\* JSONAdapter.deserialize_node
deserialize_node(data) ==
    IF TAG \notin DOMAIN data.m THEN Raised("KeyError", TAG)
    ELSE LET tag == data.m[TAG] IN
        IF IsRefTag(tag) THEN MakeRef(data)
        ELSE IF Unhashable(tag) THEN Raised("TypeError", <<>>)
        ELSE IF ~InRegistry(registry, tag)
             THEN Raised("ValueError:unknown_node_tag", TagText(tag))
        ELSE LET cls == registry[tag.s]
                 fields == NanoClasses[cls].fields
                 vals == DecodeFields(fields, data)
             IN IF HasError(vals) THEN FirstError(vals)
                ELSE Construct("node", cls, fields, Given(fields, vals))

\* JSONAdapter.deserialize_typedef
deserialize_typedef(data) ==
    IF TAG \notin DOMAIN data.m THEN Raised("KeyError", TAG)
    ELSE LET tag == data.m[TAG] IN
        IF Unhashable(tag) THEN Raised("TypeError", <<>>)
        ELSE IF ~InRegistry(typedef_registry, tag)
             THEN Raised("ValueError:unknown_typedef_tag", TagText(tag))
        ELSE LET cls == typedef_registry[tag.s]
                 fields == TypeDefClasses[cls].fields
                 vals == DecodeFields(fields, data)
             IN IF HasError(vals) THEN FirstError(vals)
                ELSE Construct("typedef", cls, fields, Given(fields, vals))

\* the dispatch with a mapping of unknown tag passed through as plain data
Dispatch_lenient(value) ==
    LET tag == value.m[TAG] IN
        IF IsRefTag(tag) THEN MakeRef(value)
        ELSE IF Unhashable(tag) THEN Raised("TypeError", <<>>)
        ELSE IF InRegistry(registry, tag) THEN deserialize_node(value)
        ELSE IF InRegistry(typedef_registry, tag) THEN deserialize_typedef(value)
        ELSE value

\* the tag dispatch shared by _deserialize_value and from_dict
Dispatch(value) ==
    LET tag == value.m[TAG] IN
        IF IsRefTag(tag) THEN MakeRef(value)
        ELSE IF Unhashable(tag) THEN Raised("TypeError", <<>>)
        ELSE IF InRegistry(registry, tag) THEN deserialize_node(value)
        ELSE IF InRegistry(typedef_registry, tag) THEN deserialize_typedef(value)
        ELSE Raised("ValueError:unknown_tag", TagText(tag))

\* JSONAdapter._deserialize_value
_deserialize_value(value) ==
    IF value.t = "dict" /\ TAG \in DOMAIN value.m THEN Dispatch(value)
    ELSE IF value.t = "list"
         THEN LET items == [i \in 1..Len(value.items) |->
                               _deserialize_value(value.items[i])]
              IN IF HasError(items) THEN FirstError(items) ELSE PyList(items)
    ELSE IF value.t = "dict"
         THEN LET m == [k \in DOMAIN value.m |-> _deserialize_value(value.m[k])]
              IN IF \E k \in DOMAIN m : IsError(m[k])
                 THEN m[CHOOSE k \in DOMAIN m : IsError(m[k])]
                 ELSE PyDict(m)
    ELSE value

\* serialization.from_dict
from_dict(data) ==
    IF TAG \notin DOMAIN data.m THEN Raised("KeyError", TAG)
    ELSE Dispatch(data)

(***************************************************************************)
(* The values the client passes to the serializer                          *)
(***************************************************************************)
\* how deep the containers and descriptors handed to the serializer nest
MaxNest == 1

BOGUS == <<"b","o","g","u","s">>
LIT   == <<"l","i","t">>
KEY_K == <<"k">>
KEY_V == <<"v">>
KEY_Z == <<"z">>

\* the last two: the set {Ref("n7")} and the byte string b"x"
Leaves ==
    {PyInt(1), PyStr(<<"x">>), Ref(PyStr(<<"n","7">>)), IntT, UnionT(<<IntT, StrT>>),
     [t |-> "set", items |-> {Ref(PyStr(<<"n","7">>))}], [t |-> "bytes", s |-> <<"x">>]}

RECURSIVE Wrap(_, _, _)
\* v inside n nested containers of one kind
Wrap(kind, v, n) ==
    IF n = 0 THEN v
    ELSE IF kind = "list"  THEN PyList(<<Wrap(kind, v, n - 1)>>)
    ELSE IF kind = "tuple" THEN PyTuple(<<Wrap(kind, v, n - 1)>>)
    ELSE Dict1(KEY_K, Wrap(kind, v, n - 1))

Wrapped ==
    {Wrap(kind, v, n) : kind \in {"list", "tuple", "dict"}, v \in Leaves, n \in 1..MaxNest}

\* a plain mapping that happens to have a key named "tag"
TagDict == Dict1(TAG, PyStr(<<"x">>))

FieldNames(c) == {NanoClasses[c].fields[i].name : i \in 1..Len(NanoClasses[c].fields)}

\* an instance of class c: its first field holds v, every other field 1
MkNode(c, v) ==
    NodeObj(c, [nm \in FieldNames(c) |->
                   IF nm = NanoClasses[c].fields[1].name THEN v ELSE PyInt(1)])

\* instances exist only of classes whose declaration succeeded
InnerNodes == {MkNode(c, PyInt(1)) : c \in DOMAIN cls_tag}

FieldValues ==
    Leaves \cup Wrapped \cup {TagDict} \cup InnerNodes
        \cup {PyList(<<n>>) : n \in InnerNodes}

Instances == {MkNode(c, v) : c \in DOMAIN cls_tag, v \in FieldValues}

RECURSIVE ListChain(_, _)
ListChain(d, n) == IF n = 0 THEN d ELSE ListT(ListChain(d, n - 1))

Descs0 == {IntT, StrT, ParamT(<<"T">>, PyNone)}

Descs1 ==
    UNION {{d, ListT(d), DictT(StrT, d), NodeT(d), RefT(d),
            UnionT(<<IntT, d>>), ParamT(<<"T">>, d)} : d \in Descs0}

\* descriptors of every variant, nested
Descs == {ListChain(d, n) : d \in Descs1, n \in 0..MaxNest}

RawNode0(tag) == Dict1(TAG, PyStr(tag))
RawNode1(tag, k, v) == PyDict(Fn2(TAG, PyStr(tag), k, v))
RawNode2(tag, k1, v1, k2, v2) ==
    PyDict([x \in {TAG, k1, k2} |->
               IF x = TAG THEN PyStr(tag) ELSE IF x = k1 THEN v1 ELSE v2])

\* hand-written input of the decoders
Crafted == {
    RawNode0(BOGUS),
    RawNode1(LIT, KEY_V, RawNode0(BOGUS)),
    RawNode1(LIT, KEY_V, PyList(<<RawNode0(BOGUS)>>)),
    RawNode1(LIT, KEY_V, Dict1(KEY_K, RawNode0(BOGUS))),
    RawNode1(LIT, KEY_V, PyList(<<PyInt(1), RawNode1(LIT, KEY_V, RawNode0(BOGUS))>>)),
    RawNode1(LIT, KEY_Z, RawNode0(BOGUS)),
    RawNode2(LIT, KEY_V, PyInt(1), KEY_Z, RawNode0(BOGUS)),
    RawNode0(LIT),
    RawNode1(LIT, KEY_V, PyList(<<RawNode0(REF), RawNode0(BOGUS)>>)),
    RawNode1(<<"l","i","s","t">>, <<"e","l","e","m","e","n","t">>, RawNode0(BOGUS)),
    RawNode1(<<"l","i","s","t">>, <<"e","l","e","m","e","n","t">>, RawNode0(<<"i","n","t">>)),
    RawNode1(REF, ID, RawNode0(BOGUS)),
    Dict1(KEY_K, PyInt(1)),
    RawNode1(ADD, <<"l">>, PyInt(1)),
    RawNode1(ADD, <<"r">>, PyInt(1)),
    RawNode2(ADD, <<"l">>, RawNode1(LIT, KEY_V, PyInt(1)), KEY_Z, PyInt(1))
}

\* the references the client encodes on their own
Refs == {Ref(PyStr(<<"n","7">>)), Ref(PyStr(<<>>)), Ref(PyStr(REF))}

NoSource == [t |-> "crafted"]

LookupTags == {ADD, REF, BOGUS, CALCULATOR \o DOT \o ADD \o DOT \o <<"1",".","0">>}

(***************************************************************************)
(* Calls of the serialization API (the adapters exist in nanodsl)          *)
(***************************************************************************)
Idle == [op |-> "idle"]

\* to_dict(obj)
ToDict(obj) ==
    /\ variant = "nanodsl"
    /\ result.op = "idle"
    /\ result' = [op |-> "to_dict", src |-> obj, arg |-> obj, out |-> to_dict(obj)]
    /\ UNCHANGED <<variant, registry, cls_tag, typedef_registry, custom_types, threads>>

\* from_dict(data); src is the object data was encoded from, if any
FromDict(src, data) ==
    /\ variant = "nanodsl"
    /\ result.op = "idle"
    /\ result' = [op |-> "from_dict", src |-> src, arg |-> data, out |-> from_dict(data)]
    /\ UNCHANGED <<variant, registry, cls_tag, typedef_registry, custom_types, threads>>

\* JSONAdapter().deserialize_node(data)
DeserializeNode(src, data) ==
    /\ variant = "nanodsl"
    /\ result.op = "idle"
    /\ result' = [op |-> "deserialize_node", src |-> src, arg |-> data,
                  out |-> deserialize_node(data)]
    /\ UNCHANGED <<variant, registry, cls_tag, typedef_registry, custom_types, threads>>

\* JSONAdapter().deserialize_typedef(data)
DeserializeTypedef(src, data) ==
    /\ variant = "nanodsl"
    /\ result.op = "idle"
    /\ result' = [op |-> "deserialize_typedef", src |-> src, arg |-> data,
                  out |-> deserialize_typedef(data)]
    /\ UNCHANGED <<variant, registry, cls_tag, typedef_registry, custom_types, threads>>

\* the client takes the outcome of its call and goes on
Return ==
    /\ result.op # "idle"
    /\ result' = Idle
    /\ UNCHANGED <<variant, registry, cls_tag, typedef_registry, custom_types, threads>>

Init ==
    /\ variant \in {"nanodsl", "typedsl"}
    /\ registry = <<>>
    /\ cls_tag = <<>>
    /\ typedef_registry = TypeDefImport(Len(TypeDefClasses))
    /\ custom_types = <<>>
    /\ threads = <<>>
    /\ result = Idle

Next ==
    \/ \E c \in NanoIds : NanoDeclare(c)
    \/ \E c \in SigIds : SigDeclare(c)
    \/ \E tag \in LookupTags : Lookup(tag)
    \/ \E obj \in Instances \cup Descs \cup Refs : ToDict(obj)
    \/ \E obj \in Instances \cup Descs \cup Refs : FromDict(obj, to_dict(obj))
    \/ \E data \in Crafted : FromDict(NoSource, data)
    \/ \E obj \in Instances : DeserializeNode(obj, serialize_node(obj))
    \/ \E data \in Crafted : DeserializeNode(NoSource, data)
    \/ \E obj \in Descs : DeserializeTypedef(obj, serialize_typedef(obj))
    \/ \E data \in Crafted : DeserializeTypedef(NoSource, data)
    \/ Return

Spec == Init /\ [][Next]_vars

(***************************************************************************)
(* Type annotations, as the objects the typing machinery hands to          *)
(* extract_type.  The field k tells what kind of object an annotation is.  *)
(***************************************************************************)
\* a plain class: int, str, type(None), bytes, object, the bare Ref class, ...
Cls(name) == [k |-> "class", name |-> name]
\* a subclass of Node; c indexes NodeKinds
NodeCls(c) == [k |-> "nodeclass", cls |-> c]
\* an object that is not a type: a Literal value, object()
Value(v) == [k |-> "value", v |-> v]
\* None, as the bound of a type variable or the origin of a plain object
NoBound == Value(PyNone)
\* TypeVar(name, bound=bound)
TypeVar(name, bound) == [k |-> "typevar", name |-> name, bound |-> bound]
\* origin[args] for a builtin or collections.abc container (types.GenericAlias)
Generic(origin, args) == [k |-> "generic", origin |-> origin, args |-> args]
\* origin[args] for a user generic class: Ref[X], Node[X], K[X]
TypingGeneric(origin, args) == [k |-> "typing_generic", origin |-> origin, args |-> args]
\* Literal[values]
LiteralAnn(args) == [k |-> "literal", args |-> args]
\* a TypeAliasType object (type Name[params] = value), and Name[args]
Alias(name) == [k |-> "alias", alias |-> name]
AliasApp(name, args) == [k |-> "alias_app", alias |-> name, args |-> args]
\* the special forms typing.Union and typing.Literal
Special(name) == [k |-> "special", name |-> name]

\* typing.get_origin
get_origin(a) ==
    CASE a.k = "generic" -> Cls(a.origin)
      [] a.k = "typing_generic" -> a.origin
      [] a.k = "literal" -> Special("Literal")
      [] a.k = "alias_app" -> Alias(a.alias)
      [] a.k = "UnionType" -> Cls("UnionType")
      [] a.k = "Union" -> Special("Union")
      [] OTHER -> NoBound

\* typing.get_args
get_args(a) ==
    IF a.k \in {"generic", "typing_generic", "literal", "alias_app", "UnionType", "Union"}
    THEN a.args ELSE <<>>

\* the members of a union are flattened and duplicates dropped, first kept
UnionMembers(a) == IF a.k \in {"UnionType", "Union"} THEN a.args ELSE <<a>>

RECURSIVE Dedup(_)
Dedup(seq) ==
    IF Len(seq) = 0 THEN <<>>
    ELSE LET front == Dedup(SubSeq(seq, 1, Len(seq) - 1))
             last == seq[Len(seq)] IN
         IF \E i \in 1..Len(front) : front[i] = last THEN front
         ELSE Append(front, last)

\* a | b: a types.UnionType (k = "UnionType") when both operands are classes,
\* builtin aliases, type aliases or such unions; if an operand is a TypeVar or
\* a user generic alias, what Union[a, b] evaluates to (k = "Union")
Or(a, b) ==
    LET m == Dedup(UnionMembers(a) \o UnionMembers(b))
        unionable(x) == x.k \in {"class", "nodeclass", "generic", "alias",
                                 "alias_app", "UnionType"} IN
      IF Len(m) = 1 THEN m[1]
      ELSE IF unionable(a) /\ unionable(b) THEN [k |-> "UnionType", args |-> m]
      ELSE [k |-> "Union", args |-> m]

RECURSIVE OrAll(_)
\* result = new_args[0]; for arg in new_args[1:]: result = result | arg
OrAll(args) ==
    IF Len(args) = 1 THEN args[1]
    ELSE Or(OrAll(SubSeq(args, 1, Len(args) - 1)), args[Len(args)])

RECURSIVE UnionOf(_)
\* Union[args]
UnionOf(args) ==
    IF Len(args) = 1 THEN args[1]
    ELSE LET m == Dedup(UnionMembers(UnionOf(SubSeq(args, 1, Len(args) - 1)))
                          \o UnionMembers(args[Len(args)])) IN
         IF Len(m) = 1 THEN m[1] ELSE [k |-> "Union", args |-> m]

(***************************************************************************)
(* Declared type variables, aliases, node kinds and marker types           *)
(***************************************************************************)
T == TypeVar(<<"T">>, NoBound)
K == TypeVar(<<"K">>, NoBound)
V == TypeVar(<<"V">>, NoBound)
\* class Gen[B: float]
B == TypeVar(<<"B">>, Cls("float"))

\* type Name[type_params] = value
Aliases ==
  LET TypeAlias(type_params, value) == [type_params |-> type_params, value |-> value] IN
  [name \in {"NodeRef", "Child", "Pair", "StrMap", "Two", "Opt", "MaybeList",
             "Nested", "Tree", "Json"} |->
    CASE name = "NodeRef" ->
           TypeAlias(<<T>>, TypingGeneric(Cls("Ref"), <<TypingGeneric(Cls("Node"), <<T>>)>>))
      [] name = "Child" ->
           TypeAlias(<<T>>, Or(TypingGeneric(Cls("Node"), <<T>>),
                               TypingGeneric(Cls("Ref"), <<TypingGeneric(Cls("Node"), <<T>>)>>)))
      [] name = "Pair" -> TypeAlias(<<T>>, Generic("tuple", <<T, T>>))
      [] name = "StrMap" -> TypeAlias(<<T>>, Generic("dict", <<Cls("str"), T>>))
      [] name = "Two" -> TypeAlias(<<K, V>>, Generic("dict", <<K, V>>))
      [] name = "Opt" -> TypeAlias(<<T>>, Or(T, Cls("NoneType")))
      [] name = "MaybeList" -> TypeAlias(<<T>>, Or(Generic("list", <<T>>), Cls("NoneType")))
      [] name = "Nested" ->
           TypeAlias(<<T>>, Generic("list", <<Generic("dict", <<Cls("str"), T>>)>>))
      [] name = "Tree" -> TypeAlias(<<T>>, Generic("list", <<AliasApp("Tree", <<T>>)>>))
      [] name = "Json" ->
           TypeAlias(<<>>, Or(Generic("list", <<Alias("Json")>>), Cls("int")))]

\* class <name>[<type_params>](<orig_bases>): <fields>, the node classes that
\* annotations refer to and schemas are asked of; fields holds what
\* dataclasses.fields(cls) and get_type_hints(cls) give, inherited fields first
NodeKinds ==
  LET Hint(name, type) == [name |-> name, type |-> type]
      Kind(name, type_params, orig_bases, fields) ==
          [name |-> name, type_params |-> type_params, orig_bases |-> orig_bases,
           fields |-> fields]
      items == Hint(<<"i","t","e","m","s">>, Generic("list", <<T>>))
      cache == Hint(<<"_","c","a","c","h","e">>, Cls("int"))
  IN <<
    \* class Const(Node[float]): value: float
    Kind(<<"C","o","n","s","t">>, <<>>, <<TypingGeneric(Cls("Node"), <<Cls("float")>>)>>,
         <<Hint(<<"v","a","l","u","e">>, Cls("float"))>>),
    \* class Items[T](Node[list[T]]): items: list[T]; _cache: int
    Kind(<<"I","t","e","m","s">>, <<T>>,
         <<TypingGeneric(Cls("Node"), <<Generic("list", <<T>>)>>)>>, <<items, cache>>),
    \* class Plain(Node): pass
    Kind(<<"P","l","a","i","n">>, <<>>, <<>>, <<>>),
    \* class IntItems(Items[int]): note: str
    Kind(<<"I","n","t","I","t","e","m","s">>, <<>>, <<TypingGeneric(NodeCls(2), <<Cls("int")>>)>>,
         <<items, cache, Hint(<<"n","o","t","e">>, Cls("str"))>>),
    \* class Opaque(Node[int]): x: int; other: object
    Kind(<<"O","p","a","q","u","e">>, <<>>, <<TypingGeneric(Cls("Node"), <<Cls("int")>>)>>,
         <<Hint(<<"x">>, Cls("int")), Hint(<<"o","t","h","e","r">>, Cls("object"))>>),
    \* class Blob(Node[int]): data: bytes; size: int
    Kind(<<"B","l","o","b">>, <<>>, <<TypingGeneric(Cls("Node"), <<Cls("int")>>)>>,
         <<Hint(<<"d","a","t","a">>, Cls("bytes")), Hint(<<"s","i","z","e">>, Cls("int"))>>),
    \* class Scaled[B: float, K](Node[B]): x: B; by: dict[K, B]
    Kind(<<"S","c","a","l","e","d">>, <<B, K>>, <<TypingGeneric(Cls("Node"), <<B>>)>>,
         <<Hint(<<"x">>, B), Hint(<<"b","y">>, Generic("dict", <<K, B>>))>>)
  >>

(***************************************************************************)
(* _substitute_type_params                                                 *)
(***************************************************************************)
RECURSIVE _substitute_type_params(_, _, _)
\* substitutions is dict(zip(type_params, args)): a later occurrence of the
\* same parameter overwrites an earlier one
_substitute_type_params(type_expr, type_params, args) ==
    LET hits == {i \in 1..Len(type_params) : type_params[i] = type_expr}
        origin == get_origin(type_expr)
        old == get_args(type_expr)
        new_args == [i \in 1..Len(old) |->
                       _substitute_type_params(old[i], type_params, args)]
    IN
    IF hits # {} THEN args[CHOOSE i \in hits : \A j \in hits : j <= i]
    ELSE IF origin = NoBound THEN type_expr
    ELSE IF Len(old) = 0 THEN type_expr
    ELSE IF type_expr.k = "UnionType" THEN OrAll(new_args)
    \* origin[new_args]
    ELSE CASE origin = Special("Union") -> UnionOf(new_args)
           [] origin = Special("Literal") -> LiteralAnn(Dedup(new_args))
           [] origin.k = "alias" -> AliasApp(origin.alias, new_args)
           [] origin.k = "nodeclass" -> TypingGeneric(origin, new_args)
           [] origin.k = "class" /\ origin.name \in {"Ref", "Node"} ->
                  TypingGeneric(origin, new_args)
           [] OTHER -> Generic(origin.name, new_args)

(***************************************************************************)
(* extract_type (schema.py of nanodsl and of typedsl)                      *)
(***************************************************************************)
FloatType       == 10
BoolType        == 11
SetType         == 12
TupleType       == 13
LiteralType     == 14
BytesType       == 15
DecimalType     == 16
DateType        == 17
TimeType        == 18
DateTimeType    == 19
DurationType    == 20
FrozenSetType   == 21
SequenceType    == 22
AbstractSetType == 23
MappingType     == 24

\* typedef_cls()
SimpleT(cls) == TypeDefObj(cls, <<>>)
\* typedef_cls(element=e)
ElementT(cls, e) == TypeDefObj(cls, Fn1(<<"e","l","e","m","e","n","t">>, e))
\* TupleType(elements=tuple(...))
TupleT(elems) == TypeDefObj(TupleType, Fn1(<<"e","l","e","m","e","n","t","s">>, PyTuple(elems)))

\* typedsl: the classes that map to a descriptor without arguments
_SIMPLE_TYPE_MAP ==
    [name \in {"int", "float", "str", "bool", "NoneType", "bytes", "Decimal",
               "date", "time", "datetime", "timedelta"} |->
       CASE name = "int" -> IntType
         [] name = "float" -> FloatType
         [] name = "str" -> StrType
         [] name = "bool" -> BoolType
         [] name = "NoneType" -> NoneType
         [] name = "bytes" -> BytesType
         [] name = "Decimal" -> DecimalType
         [] name = "date" -> DateType
         [] name = "time" -> TimeType
         [] name = "datetime" -> DateTimeType
         [] name = "timedelta" -> DurationType]

\* typedsl: container origin -> (descriptor class, expected argument count)
_CONTAINER_TYPE_MAP ==
    [name \in {"list", "set", "frozenset", "Sequence", "AbstractSet", "dict", "Mapping"} |->
       CASE name = "list" -> [cls |-> ListType, arg_count |-> 1]
         [] name = "set" -> [cls |-> SetType, arg_count |-> 1]
         [] name = "frozenset" -> [cls |-> FrozenSetType, arg_count |-> 1]
         [] name = "Sequence" -> [cls |-> SequenceType, arg_count |-> 1]
         [] name = "AbstractSet" -> [cls |-> AbstractSetType, arg_count |-> 1]
         [] name = "dict" -> [cls |-> DictType, arg_count |-> 2]
         [] name = "Mapping" -> [cls |-> MappingType, arg_count |-> 2]]

\* the test made against the Node base alone
IsNodeClass_base(x) == x = Cls("Node")

\* isinstance(x, type) and issubclass(x, Node)
IsNodeClass(x) == x.k = "nodeclass" \/ x = Cls("Node")

\* the lookup made for classes only
get_registered_type_class(py_type) ==
    IF py_type.k = "class" /\ py_type \in DOMAIN custom_types
    THEN custom_types[py_type] ELSE PyNone

\* TypeDef.get_registered_type(py_type)
get_registered_type(py_type) ==
    IF py_type \in DOMAIN custom_types THEN custom_types[py_type] ELSE PyNone

\* the classes the simple-type rule of the loaded package answers for:
\* typedsl looks py_type up in _SIMPLE_TYPE_MAP, nanodsl runs a chain of
\* "py_type is ..." tests over five classes
SimpleTypes ==
    IF variant = "typedsl" THEN _SIMPLE_TYPE_MAP
    ELSE [name \in {"int", "float", "str", "bool", "NoneType"} |-> _SIMPLE_TYPE_MAP[name]]

\* the descriptor built from sub-results, or the first exception one raised
Built(parts, desc) == IF HasError(parts) THEN FirstError(parts) ELSE desc

\* a type variable is taken for one only while it is not a registered marker
IsTypeVar_unregistered(py_type) ==
    py_type.k = "typevar" /\ py_type \notin DOMAIN custom_types

\* isinstance(py_type, TypeVar), the first test extract_type makes
IsTypeVar(py_type) == py_type.k = "typevar"

RECURSIVE extract_type(_, _)

\* _extract_node_returns(cls): the argument of the first base that is a Node
\* class with arguments, or NoneType()
_extract_node_returns(cls, depth) ==
    LET bases == IF cls = Cls("Node") THEN <<>> ELSE NodeKinds[cls.cls].orig_bases
        hits == {i \in 1..Len(bases) :
                   IsNodeClass(get_origin(bases[i])) /\ Len(get_args(bases[i])) > 0}
    IN IF hits = {} THEN NoneT
       ELSE extract_type(get_args(bases[CHOOSE i \in hits : \A j \in hits : i <= j])[1],
                         depth)

\* extract_type(py_type) with depth frames left on the interpreter's stack
extract_type(py_type, depth) ==
    IF depth = 0 THEN Raised("RecursionError", <<>>)
    ELSE
    LET origin == get_origin(py_type)
        args == get_args(py_type)
        each == [i \in 1..Len(args) |-> extract_type(args[i], depth - 1)]
        returns == IF Len(args) > 0 THEN each[1] ELSE NoneT
        \* the container rule: typedsl looks origin up in _CONTAINER_TYPE_MAP and
        \* requires len(args) == arg_count; nanodsl tests list, dict and set, with
        \* "if not args" for list and set and len(args) != 2 for dict
        container == origin.k = "class" /\ origin.name \in
                         (IF variant = "typedsl" THEN DOMAIN _CONTAINER_TYPE_MAP
                          ELSE {"list", "dict", "set"})
        arity_error == IF variant = "typedsl" \/ origin.name = "dict"
                       THEN Len(args) # _CONTAINER_TYPE_MAP[origin.name].arg_count
                       ELSE Len(args) = 0
        \* isinstance(py_type, types.UnionType), in typedsl also origin is Union
        union == \/ py_type.k = "UnionType"
                 \/ variant = "typedsl" /\ origin = Special("Union")
    IN
    IF IsTypeVar(py_type) THEN
        IF py_type.bound # NoBound
        THEN LET bound == extract_type(py_type.bound, depth - 1) IN
               Built(<<bound>>, ParamT(py_type.name, bound))
        ELSE ParamT(py_type.name, PyNone)
    ELSE IF get_registered_type(py_type) # PyNone THEN get_registered_type(py_type)
    ELSE IF origin.k = "alias" THEN
        LET type_params == Aliases[origin.alias].type_params IN
          IF Len(type_params) # Len(args) THEN Raised("ValueError:alias_arity", <<>>)
          ELSE extract_type(_substitute_type_params(Aliases[origin.alias].value,
                                                    type_params, args), depth - 1)
    ELSE IF py_type.k = "class" /\ py_type.name \in DOMAIN SimpleTypes THEN
        SimpleT(SimpleTypes[py_type.name])
    ELSE IF container THEN
        IF arity_error
        THEN Raised("ValueError:container_arity", <<>>)
        ELSE IF _CONTAINER_TYPE_MAP[origin.name].arg_count = 1
        THEN Built(<<each[1]>>, ElementT(_CONTAINER_TYPE_MAP[origin.name].cls, each[1]))
        ELSE Built(<<each[1], each[2]>>,
                   TypeDefObj(_CONTAINER_TYPE_MAP[origin.name].cls,
                              Fn2(<<"k","e","y">>, each[1], <<"v","a","l","u","e">>, each[2])))
    ELSE IF origin = Cls("tuple") THEN
        IF Len(args) = 0 THEN Raised("ValueError:tuple_empty", <<>>)
        ELSE Built(each, TupleT(each))
    ELSE IF origin = Special("Literal") THEN
        IF Len(args) = 0 THEN Raised("ValueError:literal_empty", <<>>)
        \* isinstance(val, (str, int, bool)) for every value
        ELSE IF \E i \in 1..Len(args) :
                    ~(args[i].k = "value" /\ args[i].v.t \in {"str", "int"}) THEN
            \* a value of a wrong type: TypeError in typedsl, ValueError in nanodsl
            IF variant = "typedsl" THEN Raised("TypeError:literal_value", <<>>)
            ELSE Raised("ValueError:literal_value", <<>>)
        ELSE TypeDefObj(LiteralType, Fn1(<<"v","a","l","u","e","s">>,
                                         PyTuple([i \in 1..Len(args) |-> args[i].v])))
    ELSE IF IsNodeClass(origin) THEN Built(<<returns>>, NodeT(returns))
    ELSE IF IsNodeClass(py_type) THEN
        LET node_returns == _extract_node_returns(py_type, depth - 1)
        IN Built(<<node_returns>>, NodeT(node_returns))
    ELSE IF origin = Cls("Ref") THEN Built(<<returns>>, RefT(returns))
    ELSE IF union THEN Built(each, UnionT(each))
    ELSE Raised("ValueError:cannot_extract", <<>>)

(***************************************************************************)
(* The annotations and descriptors the client passes to the schema API     *)
(***************************************************************************)
\* the frames extract_type may stack up before Python raises RecursionError
RecursionLimit == 8

\* the descriptor class a caller declares for a marker type
DataFrameType == 25

\* the annotations the client asks extract_type about: plain objects, one
\* level of subscription, and those nested once more
Annotations ==
    LET ArgAtoms == {Cls("int"), Cls("str"), Cls("float"), T, Cls("object")}
        ArgLists == {<<>>} \cup {<<a>> : a \in ArgAtoms} \cup {<<a, b>> : a, b \in ArgAtoms}
        Atoms ==
            {Cls(name) : name \in {"int", "float", "str", "bool", "NoneType", "bytes",
                                   "Decimal", "date", "time", "datetime", "timedelta",
                                   "object", "list", "Ref", "Node", "DataFrame"}}
            \cup {NodeCls(c) : c \in 1..Len(NodeKinds)}
            \cup {T, K, B, TypeVar(<<"C">>, Generic("list", <<Cls("int")>>)), Value([t |-> "object"]), Alias("Json")}
        ContainerAnns ==
            {Generic(origin, args) : origin \in DOMAIN _CONTAINER_TYPE_MAP \cup {"tuple"},
                                     args \in ArgLists}
            \cup {Generic("tuple", <<Cls("int"), Cls("str"), Cls("float")>>),
                  Generic("dict", <<K, V>>), Generic("list", <<B>>)}
        LiteralAnns ==
            {LiteralAnn(<<>>),
             LiteralAnn(<<Value(PyStr(<<"a">>))>>),
             LiteralAnn(<<Value(PyStr(<<"a">>)), Value(PyInt(1))>>),
             LiteralAnn(<<Value(PyInt(1)), Value(PyNone)>>)}
        NodeAnns ==
            {TypingGeneric(origin, <<a>>) :
                 origin \in {Cls("Ref"), Cls("Node"), NodeCls(2)}, a \in ArgAtoms}
            \cup {TypingGeneric(Cls("Ref"), <<TypingGeneric(Cls("Node"), <<Cls("int")>>)>>)}
        UnionOperands ==
            ArgAtoms \cup {Cls("NoneType"), Generic("list", <<Cls("int")>>),
                           TypingGeneric(Cls("Ref"), <<Cls("int")>>)}
        UnionAnns ==
            {Or(a, b) : a, b \in UnionOperands}
            \cup {UnionOf(<<a, b>>) : a, b \in UnionOperands}
            \cup {Or(Or(Cls("int"), Cls("str")), Cls("float")),
                  Or(Or(Cls("float"), Cls("str")), Cls("int")),
                  UnionOf(<<Cls("int"), Cls("str"), Cls("float")>>)}
        AliasAnns ==
            {AliasApp(name, args) :
                 name \in DOMAIN Aliases,
                 args \in {<<>>, <<Cls("int")>>, <<T>>, <<Cls("int"), Cls("str")>>,
                           <<V, Cls("int")>>}}
        Level1 == ContainerAnns \cup LiteralAnns \cup NodeAnns \cup UnionAnns \cup AliasAnns
        Level2 ==
            {Generic("list", <<x>>) : x \in Level1}
            \cup {Generic("dict", <<Cls("str"), x>>) : x \in ContainerAnns \cup UnionAnns}
            \cup {Or(x, Cls("NoneType")) : x \in ContainerAnns}
    IN Atoms \cup Level1 \cup Level2

(***************************************************************************)
(* Calls of the schema API                                                 *)
(***************************************************************************)
\* register_custom_type(python_type, typedef)
RegisterCustomType(python_type, typedef) ==
    /\ result.op = "idle"
    /\ custom_types' = RegistryPut(custom_types, python_type, typedef)
    /\ result' = [op |-> "register_custom_type", arg |-> python_type, out |-> PyNone]
    /\ UNCHANGED <<variant, registry, cls_tag, typedef_registry, threads>>

\* extract_type(py_type)
ExtractType(py_type) ==
    /\ result.op = "idle"
    /\ result' = [op |-> "extract_type", arg |-> py_type,
                  out |-> extract_type(py_type, RecursionLimit)]
    /\ UNCHANGED <<variant, registry, cls_tag, typedef_registry, custom_types, threads>>

\* a == b on two descriptors, by the __eq__ that @dataclass generates: the
\* same class and equal tuples of fields
Compare(a, b) ==
    /\ result.op = "idle"
    /\ result' = [op |-> "eq", arg |-> <<a, b>>, out |-> (a.cls = b.cls /\ a.f = b.f)]
    /\ UNCHANGED <<variant, registry, cls_tag, typedef_registry, custom_types, threads>>

NextExtract ==
    \* the markers: a class of the caller, a primitive, a type variable, a
    \* container, a node kind and an alias application
    \/ \E python_type \in {Cls("DataFrame"), Cls("int"), T, Generic("list", <<Cls("int")>>),
                            NodeCls(1), AliasApp("Pair", <<Cls("int")>>)},
          typedef \in {SimpleT(DataFrameType)} :
           RegisterCustomType(python_type, typedef)
    \/ \E py_type \in Annotations : ExtractType(py_type)
    \* the descriptors the client compares with ==
    \/ \E a, b \in
           {IntT, StrT, SimpleT(FloatType),
            UnionT(<<IntT, StrT>>), UnionT(<<StrT, IntT>>),
            UnionT(<<IntT, StrT, SimpleT(FloatType)>>), UnionT(<<SimpleT(FloatType), StrT, IntT>>),
            ListT(IntT), ListT(StrT), ElementT(SetType, IntT),
            ListT(UnionT(<<IntT, NoneT>>)), ListT(UnionT(<<NoneT, IntT>>)),
            TupleT(<<IntT, StrT>>), TupleT(<<StrT, IntT>>),
            DictT(IntT, StrT), DictT(StrT, IntT),
            ParamT(<<"T">>, PyNone), ParamT(<<"T">>, IntT), ParamT(<<"K">>, PyNone)} :
           Compare(a, b)
    \/ Return

SpecExtract == Init /\ [][NextExtract]_vars

(***************************************************************************)
(* Declaring node kinds and asking for their schemas.  In SpecSchema the    *)
(* classes in Node.registry are those of NodeKinds.                        *)
(***************************************************************************)
\* a class statement that extracts the field annotations before registering
KindDeclare_eager(c) ==
    /\ result.op = "idle"
    /\ \A i \in 1..Len(NodeKinds[c].orig_bases) :
         get_origin(NodeKinds[c].orig_bases[i]).k = "nodeclass"
             => get_origin(NodeKinds[c].orig_bases[i]).cls \in DOMAIN cls_tag
    /\ LET tag == DefaultTag(NodeKinds[c].name)
           types == [i \in 1..Len(NodeKinds[c].fields) |->
                       extract_type(NodeKinds[c].fields[i].type, RecursionLimit)]
       IN IF \E i \in 1..Len(types) : IsError(types[i])
          THEN /\ result' = [op |-> "declare", cls |-> c, tag |-> tag,
                             out |-> Built(types, PyNone)]
               /\ UNCHANGED <<registry, cls_tag>>
          ELSE Register(c, tag)
    /\ UNCHANGED <<variant, typedef_registry, custom_types, threads>>

\* Node.__init_subclass__ run by the class statement of NodeKinds[c], which
\* names its base classes and so runs after theirs
KindDeclare(c) ==
    /\ result.op = "idle"
    /\ \A i \in 1..Len(NodeKinds[c].orig_bases) :
         get_origin(NodeKinds[c].orig_bases[i]).k = "nodeclass"
             => get_origin(NodeKinds[c].orig_bases[i]).cls \in DOMAIN cls_tag
    /\ LET tag == DefaultTag(NodeKinds[c].name) IN
         IF variant = "nanodsl" /\ ~_validate_tag(tag)
         THEN /\ result' = [op |-> "declare", cls |-> c, tag |-> tag,
                            out |-> Raised("ValueError:invalid_tag", tag)]
              /\ UNCHANGED <<registry, cls_tag>>
         ELSE Register(c, tag)
    /\ UNCHANGED <<variant, typedef_registry, custom_types, threads>>

\* node_schema(cls): NodeSchema(tag, type_params, returns, fields); the
\* arguments are evaluated in this order, fields being a generator that is
\* consumed last
node_schema(c) ==
    LET kind == NodeKinds[c]
        bounds == [i \in 1..Len(kind.type_params) |->
                     IF kind.type_params[i].bound # NoBound
                     THEN extract_type(kind.type_params[i].bound, RecursionLimit)
                     ELSE PyNone]
        returns == _extract_node_returns(NodeCls(c), RecursionLimit)
        public == SelectSeq(kind.fields, LAMBDA f : ~StartsWithUnderscore(f.name))
        types == [i \in 1..Len(public) |-> extract_type(public[i].type, RecursionLimit)]
    IN Built(bounds \o <<returns>> \o types,
             [t |-> "schema",
              tag |-> cls_tag[c],
              type_params |-> [i \in 1..Len(bounds) |->
                                  ParamT(kind.type_params[i].name, bounds[i])],
              returns |-> returns,
              fields |-> [i \in 1..Len(public) |->
                             [name |-> public[i].name, type |-> types[i]]]])

\* node_schema(cls) called on a class that exists
NodeSchema(c) ==
    /\ result.op = "idle"
    /\ c \in DOMAIN cls_tag
    /\ result' = [op |-> "node_schema", cls |-> c, out |-> node_schema(c)]
    /\ UNCHANGED <<variant, registry, cls_tag, typedef_registry, custom_types, threads>>

\* all_schemas(): {tag: node_schema(cls) for tag, cls in Node.registry.items()};
\* the comprehension stops at the first class whose schema raises
AllSchemas ==
    /\ result.op = "idle"
    /\ LET failing == {tag \in DOMAIN registry : IsError(node_schema(registry[tag]))} IN
         \E out \in (IF failing = {}
                     THEN {[t |-> "schemas",
                            m |-> [tag \in DOMAIN registry |-> node_schema(registry[tag])]]}
                     ELSE {node_schema(registry[tag]) : tag \in failing}) :
             result' = [op |-> "all_schemas", out |-> out]
    /\ UNCHANGED <<variant, registry, cls_tag, typedef_registry, custom_types, threads>>

NextSchema ==
    \/ \E c \in 1..Len(NodeKinds) : KindDeclare(c)
    \/ \E c \in 1..Len(NodeKinds) : NodeSchema(c)
    \/ AllSchemas
    \/ Return

SpecSchema == Init /\ [][NextSchema]_vars

(***************************************************************************)
(* Descriptor classes declared by the client after the types module has    *)
(* been imported                                                           *)
(***************************************************************************)
\* TypeDef.__init_subclass__ run by `class <cls>(TypeDef, tag=<tag>)` with
\* __annotations__ in its body: TypeDef._registry[cls._tag] = cls
TypeDefDeclare(cls, tag) ==
    /\ result.op = "idle"
    /\ typedef_registry' = RegistryPut(typedef_registry, tag, cls)
    /\ result' = [op |-> "declare_typedef", cls |-> cls, tag |-> tag, out |-> PyNone]
    /\ UNCHANGED <<variant, registry, cls_tag, custom_types, threads>>

\* the client declares DataFrameType and two more classes, under a tag of its
\* own or under one the types module uses
NextTypeDef ==
    \/ \E cls \in DataFrameType..(DataFrameType + 2),
          tag \in {<<"d","a","t","a","f","r","a","m","e">>, <<"f","r","a","m","e">>,
                   <<"i","n","t">>, <<"l","i","s","t">>} :
          TypeDefDeclare(cls, tag)
    \/ Return

SpecTypeDef == Init /\ [][NextTypeDef]_vars

(***************************************************************************)
(* Class statements executed by two threads: Node.__init_subclass__ runs   *)
(* without a lock, so a thread switch may fall between its collision test  *)
(* and its assignment to Node.registry                                     *)
(***************************************************************************)

\* cls._tag as the hook of the loaded package computes it
ClassTag(c) == IF variant = "nanodsl" THEN NanoTag(c) ELSE SigTag(c)

\* cls._tag = ...; _validate_tag(cls._tag);
\* if existing := Node.registry.get(cls._tag): if existing is not cls: raise
DeclareCheck(t) ==
    /\ threads[t].pc = "start"
    /\ LET c == threads[t].cls
           tag == ClassTag(c) IN
         threads' = [threads EXCEPT ![t].pc =
                        IF variant = "nanodsl" /\ ~_validate_tag(tag) THEN "raised"
                        ELSE IF Collides(registry, tag, c) THEN "raised"
                        ELSE "insert"]
    /\ UNCHANGED <<variant, registry, cls_tag, typedef_registry, custom_types, result>>

\* Node.registry[cls._tag] = cls, and the class statement returns
DeclareInsert(t) ==
    /\ threads[t].pc = "insert"
    /\ LET c == threads[t].cls IN
         /\ registry' = RegistryPut(registry, ClassTag(c), c)
         /\ cls_tag' = RegistryPut(cls_tag, c, ClassTag(c))
    /\ threads' = [threads EXCEPT ![t].pc = "done"]
    /\ UNCHANGED <<variant, typedef_registry, custom_types, result>>

\* two threads, each about to execute the class statement of another class
InitConcurrent ==
    /\ variant \in {"nanodsl", "typedsl"}
    /\ registry = <<>>
    /\ cls_tag = <<>>
    /\ typedef_registry = TypeDefImport(Len(TypeDefClasses))
    /\ custom_types = <<>>
    /\ result = Idle
    /\ \E c1, c2 \in (IF variant = "nanodsl" THEN NanoIds ELSE SigIds) :
         /\ c1 # c2
         /\ threads = [t \in {1, 2} |-> [pc |-> "start", cls |-> IF t = 1 THEN c1 ELSE c2]]

NextConcurrent ==
    \/ \E t \in {1, 2} : DeclareCheck(t)
    \/ \E t \in {1, 2} : DeclareInsert(t)

SpecConcurrent == InitConcurrent /\ [][NextConcurrent]_vars

(***************************************************************************)
(* Properties                                                              *)
(***************************************************************************)
IsCollision(out) == out.t = "error" /\ out.exc = "ValueError:collision"

\* C1: a declaration whose computed tag is already mapped to a different
\* class fails with a collision error and leaves the registry as it was;
\* the hook run again for the class the tag is mapped to succeeds and leaves
\* the registry as it was.
CollisionInvariant ==
    [][(result'.op = "declare" /\ result.op = "idle" /\ result'.tag \in DOMAIN registry) =>
          IF registry[result'.tag] # result'.cls
          THEN IsCollision(result'.out) /\ registry' = registry
          ELSE result'.out = PyNone /\ registry' = registry]_vars

\* a declaration has just been refused for a collision
CollisionSeen ==
    /\ result.op = "declare"
    /\ IsCollision(result.out)
    /\ registry[result.tag] # result.cls

\* C2: decoding the encoding of a node instance gives back an instance equal
\* to it, for every field value and every field name.
NodeRoundTrip ==
    (result.op \in {"deserialize_node", "from_dict"} /\ result.src.t = "node")
        => result.out = result.src

\* C3: decoding the encoding of a descriptor gives back a descriptor equal to
\* it, through deserialize_typedef and through from_dict.
TypeDefRoundTrip ==
    (result.op \in {"deserialize_typedef", "from_dict"} /\ result.src.t = "typedef")
        => result.out = result.src

\* "starts with a lowercase letter, followed by zero or more lowercase
\* letters, digits, hyphens, or underscores"
WellFormedTag(tag) ==
    /\ Len(tag) >= 1
    /\ tag[1] \in LowerLetters
    /\ \A i \in 2..Len(tag) : tag[i] \in LowerLetters \cup Digits \cup {"-", "_"}

\* C4: every tag in the node registry is well formed, and a declaration with
\* a tag that is not well formed fails and adds nothing.
RegisteredTagsWellFormed ==
    /\ \A tag \in DOMAIN registry : WellFormedTag(tag)
    /\ (result.op = "declare" /\ ~WellFormedTag(result.tag))
           => (result.out.t = "error" /\ result.tag \notin DOMAIN registry)

TagDeterminism ==
    (result.op = "to_dict" /\ result.src.t = "node") =>
        /\ TAG \in DOMAIN result.out.m
        /\ \E tag \in DOMAIN registry :
              /\ registry[tag] = result.src.cls
              /\ result.out.m[TAG] = PyStr(tag)

\* an instance whose own field "tag" holds another string has been encoded
TagFieldEncoded ==
    /\ result.op = "to_dict"
    /\ result.src.t = "node"
    /\ TAG \in DOMAIN result.src.f
    /\ result.src.f[TAG] = PyStr(<<"x">>)

KnownNodeTag(d)    == InRegistry(registry, d.m[TAG])
KnownTypeDefTag(d) == ~KnownNodeTag(d) /\ InRegistry(typedef_registry, d.m[TAG])
UnknownTag(d) ==
    /\ ~IsRefTag(d.m[TAG])
    /\ ~InRegistry(registry, d.m[TAG])
    /\ ~InRegistry(typedef_registry, d.m[TAG])

\* the declared fields of the class a tagged mapping names (a ref has none
\* that are decoded)
TaggedFields(d) ==
    IF IsRefTag(d.m[TAG]) THEN <<>>
    ELSE IF KnownNodeTag(d) THEN NanoClasses[registry[d.m[TAG].s]].fields
    ELSE IF KnownTypeDefTag(d) THEN TypeDefClasses[typedef_registry[d.m[TAG].s]].fields
    ELSE <<>>

RECURSIVE TaggedMappings(_)
\* the tagged mappings of a piece of data: the data itself, and those nested
\* in a list element, in a value of a plain mapping, or in the value of a
\* declared public field of a mapping with a registered tag
TaggedMappings(v) ==
    IF v.t = "list"
    THEN UNION {TaggedMappings(v.items[i]) : i \in 1..Len(v.items)}
    ELSE IF v.t = "dict" /\ TAG \notin DOMAIN v.m
    THEN UNION {TaggedMappings(v.m[k]) : k \in DOMAIN v.m}
    ELSE IF v.t = "dict"
    THEN {v} \cup UNION {TaggedMappings(v.m[k]) :
                            k \in PublicNames(TaggedFields(v)) \cap DOMAIN v.m}
    ELSE {}

\* nothing but an unknown tag can make the decode of data fail: every ref
\* mapping has its id and every mapping of a registered tag has the fields
\* its class requires
SoundApartFromTags(data) ==
    \A d \in TaggedMappings(data) :
        /\ d.m[TAG].t = "str"
        /\ IsRefTag(d.m[TAG]) => ID \in DOMAIN d.m
        /\ \A i \in 1..Len(TaggedFields(d)) :
              \/ TaggedFields(d)[i].has_default
              \/ /\ TaggedFields(d)[i].name \in DOMAIN d.m
                 /\ ~StartsWithUnderscore(TaggedFields(d)[i].name)

RefTagReserved ==
    /\ REF \notin DOMAIN registry
    /\ REF \notin DOMAIN typedef_registry

RECURSIVE Dotted(_)
\* the parts with a "." between neighbours, built from the right
Dotted(parts) ==
    IF Len(parts) = 1 THEN parts[1]
    ELSE Dotted(SubSeq(parts, 1, Len(parts) - 1)) \o <<".">> \o parts[Len(parts)]

\* s without a trailing "node"
StripNode(s) ==
    IF /\ Len(s) >= 4
       /\ <<s[Len(s) - 3], s[Len(s) - 2], s[Len(s) - 1], s[Len(s)]>> = <<"n","o","d","e">>
    THEN [i \in 1..(Len(s) - 4) |-> s[i]]
    ELSE s

\* the tag the declaration of class c is to give
ExpectedTag(c) ==
    IF variant = "typedsl"
    THEN IF SigClasses[c].kwargs # <<>>
         THEN Dotted([i \in 1..Len(SigClasses[c].kwargs) |-> SigClasses[c].kwargs[i].value])
         ELSE StripNode(Lower(SigClasses[c].name))
    ELSE IF NanoClasses[c].has_tag THEN NanoClasses[c].tag
         ELSE StripNode(Lower(NanoClasses[c].name))

\* C9: the tag of a declared class is the signature component values joined
\* with "." in the order supplied, or, without components, the class name
\* lower-cased with a trailing "node" removed (AddNode gives add).
TagIsFunctionOfDeclaration ==
    /\ \A c \in DOMAIN cls_tag :
          cls_tag[c] = ExpectedTag(c) /\ registry[cls_tag[c]] = c
    /\ result.op = "declare" => result.tag = ExpectedTag(result.cls)
    /\ (variant = "nanodsl" /\ 2 \in DOMAIN cls_tag) => cls_tag[2] = <<"a","d","d">>
    /\ (variant = "typedsl" /\ 6 \in DOMAIN cls_tag) => cls_tag[6] = <<"a",".","b",".","c">>

\* AddNode has been declared without components, X2 with two
DefaultAndComposedTagsDeclared ==
    /\ variant = "typedsl"
    /\ 3 \in DOMAIN cls_tag
    /\ 6 \in DOMAIN cls_tag

CALC_ADD_1_0 == <<"c","a","l","c","u","l","a","t","o","r",".","a","d","d",".","1",".","0">>
CALC_ADD_2_0 == <<"c","a","l","c","u","l","a","t","o","r",".","a","d","d",".","2",".","0">>

Primitives == {"int", "float", "str", "bool", "NoneType", "bytes", "Decimal",
               "date", "time", "datetime", "timedelta"}
OneArgContainers == {"list", "set", "frozenset", "Sequence", "AbstractSet"}
TwoArgContainers == {"dict", "Mapping"}

\* the number of the first extraction rule the annotation a matches, 0 for none
Rule(a) ==
    IF a.k = "typevar" THEN 1
    ELSE IF a \in DOMAIN custom_types THEN 2
    ELSE IF a.k = "alias_app" THEN 3
    ELSE IF a.k = "class" /\ a.name \in Primitives THEN 4
    ELSE IF a.k = "generic" /\ a.origin \in OneArgContainers THEN 5
    ELSE IF a.k = "generic" /\ a.origin \in TwoArgContainers THEN 6
    ELSE IF a.k = "generic" /\ a.origin = "tuple" THEN 7
    ELSE IF a.k = "literal" THEN 8
    ELSE IF a.k = "nodeclass" \/ a = Cls("Node") THEN 9
    ELSE IF a.k = "typing_generic" /\ a.origin # Cls("Ref") THEN 9
    ELSE IF a.k = "typing_generic" THEN 10
    ELSE IF a.k \in {"UnionType", "Union"} THEN 11
    ELSE 0

\* the descriptor d has the variant that rule r produces for the annotation a
VariantOfRule(r, a, d) ==
    CASE r = 1 -> d.cls = TypeParameter
      [] r = 2 -> d = custom_types[a]
      [] r = 3 -> TRUE
      [] r = 4 -> d.cls \in {IntType, FloatType, StrType, BoolType, NoneType, BytesType,
                             DecimalType, DateType, TimeType, DateTimeType, DurationType}
      [] r = 5 -> d.cls \in {ListType, SetType, FrozenSetType, SequenceType, AbstractSetType}
      [] r = 6 -> d.cls \in {DictType, MappingType}
      [] r = 7 -> d.cls = TupleType
      [] r = 8 -> d.cls = LiteralType
      [] r = 9 -> d.cls = NodeType
      [] r = 10 -> d.cls = RefType
      [] r = 11 -> d.cls = UnionType

\* the annotations extract_type is called on while it handles a
SubAnnotations(a) ==
    CASE a.k = "typevar" -> IF a.bound = NoBound THEN {} ELSE {a.bound}
      [] a.k = "alias_app" /\ Len(a.args) = Len(Aliases[a.alias].type_params) ->
           {_substitute_type_params(Aliases[a.alias].value, Aliases[a.alias].type_params, a.args)}
      [] a.k \in {"generic", "typing_generic", "UnionType", "Union"} ->
           {a.args[i] : i \in 1..Len(a.args)}
      [] OTHER -> {}

\* C11: extract returns the descriptor of the first rule that matches, in the
\* order type parameter, registered marker, alias application, primitive,
\* one-argument container, two-argument container, tuple, literal, node kind,
\* Ref, union; an annotation that matches no rule fails with an extraction
\* error, and only such an annotation is reported as not extractable
FirstMatchingRule ==
    result.op = "extract_type" =>
        LET a == result.arg
            out == result.out
            r == Rule(a) IN
          /\ r = 0 => IsError(out)
          /\ (r # 0 /\ ~IsError(out)) => VariantOfRule(r, a, out)
          /\ (r # 0 /\ IsError(out) /\ out.exc = "ValueError:cannot_extract") =>
                 \E sub \in SubAnnotations(a) :
                     extract_type(sub, RecursionLimit) = out


\* C12: extract terminates on every annotation with a recursion depth bounded
\* by the nesting of the annotation, alias applications included, also for an
\* alias whose body refers to the alias itself: no call of extract_type runs
\* out of stack
ExtractTerminates ==
    result.op = "extract_type" => result.out # Raised("RecursionError", <<>>)


\* the body of each declared alias with its placeholders replaced by args
Instantiate(name, args) ==
    CASE name = "NodeRef" -> TypingGeneric(Cls("Ref"), <<TypingGeneric(Cls("Node"), <<args[1]>>)>>)
      [] name = "Child" ->
           Or(TypingGeneric(Cls("Node"), <<args[1]>>),
              TypingGeneric(Cls("Ref"), <<TypingGeneric(Cls("Node"), <<args[1]>>)>>))
      [] name = "Pair" -> Generic("tuple", <<args[1], args[1]>>)
      [] name = "StrMap" -> Generic("dict", <<Cls("str"), args[1]>>)
      [] name = "Two" -> Generic("dict", <<args[1], args[2]>>)
      [] name = "Opt" -> Or(args[1], Cls("NoneType"))
      [] name = "MaybeList" -> Or(Generic("list", <<args[1]>>), Cls("NoneType"))
      [] name = "Nested" -> Generic("list", <<Generic("dict", <<Cls("str"), args[1]>>)>>)
      [] name = "Tree" -> Generic("list", <<AliasApp("Tree", <<args[1]>>)>>)
      [] name = "Json" -> Or(Generic("list", <<Alias("Json")>>), Cls("int"))

\* C13: extract of a generic alias applied to as many arguments as it has
\* placeholders equals the extract of its body with every placeholder
\* replaced by its argument simultaneously, also inside unions and nested
\* containers (StrMap[int] is Dict(String, Int), Pair[int] a tuple of two
\* Int); with another number of arguments it fails with an extraction error
AliasSubstitution ==
    (result.op = "extract_type" /\ result.arg.k = "alias_app") =>
        LET name == result.arg.alias
            args == result.arg.args IN
          /\ Len(args) # Len(Aliases[name].type_params) =>
                 result.out = Raised("ValueError:alias_arity", <<>>)
          /\ Len(args) = Len(Aliases[name].type_params) =>
                 result.out = extract_type(Instantiate(name, args), RecursionLimit)
          /\ (result.arg = AliasApp("StrMap", <<Cls("int")>>) /\ Cls("int") \notin DOMAIN custom_types)
                 => result.out = DictT(StrT, IntT)
          /\ (result.arg = AliasApp("Pair", <<Cls("int")>>) /\ Cls("int") \notin DOMAIN custom_types)
                 => result.out = TupleT(<<IntT, IntT>>)


\* C14: when two threads declare two distinct kinds with the same tag at the
\* same time, at most one declaration succeeds under every interleaving of
\* the collision tests and the insertions: never both return successfully
AtMostOneDeclarationSucceeds ==
    \A t1, t2 \in DOMAIN threads :
        (/\ t1 # t2
         /\ threads[t1].cls # threads[t2].cls
         /\ ClassTag(threads[t1].cls) = ClassTag(threads[t2].cls))
        => ~(threads[t1].pc = "done" /\ threads[t2].pc = "done")


(***************************************************************************)
(* Properties of references and of node decoding                          *)
(***************************************************************************)
\* the mapping {"tag": "ref", "id": s}
RefMapping(s) ==
    PyDict([x \in {<<"t","a","g">>, <<"i","d">>} |->
               IF x = <<"t","a","g">> THEN PyStr(<<"r","e","f">>) ELSE s])

IsRefMapping(v) ==
    /\ v.t = "dict"
    /\ DOMAIN v.m = {<<"t","a","g">>, <<"i","d">>}
    /\ v = RefMapping(v.m[<<"i","d">>])

\* the value expected where the decoder meets the encoded value v: a Ref for
\* a ref mapping, a list of such for a list of ref mappings
DecodedRefs(v, out) ==
    /\ IsRefMapping(v) => out = Ref(v.m[<<"i","d">>])
    /\ v.t = "list" =>
           /\ out.t = "list"
           /\ \A i \in 1..Len(v.items) :
                  IsRefMapping(v.items[i]) => out.items[i] = Ref(v.items[i].m[<<"i","d">>])

\* C15: for every identifier s, Ref(id=s) encodes to exactly the mapping
\* {"tag": "ref", "id": s} and that mapping decodes back to an equal Ref, as
\* the top-level value and as a field value or a list element inside a node
RefRoundTrip ==
    /\ (result.op = "to_dict" /\ result.src.t = "ref") =>
           result.out = RefMapping(result.src.id)
    /\ (result.op = "from_dict" /\ result.src.t = "ref") =>
           /\ result.arg = RefMapping(result.src.id)
           /\ result.out = result.src
    /\ (result.op = "to_dict" /\ result.src.t = "node" /\ result.out.t = "dict") =>
           \A nm \in DOMAIN result.out.m \ {<<"t","a","g">>} :
               /\ result.src.f[nm].t = "ref" =>
                      result.out.m[nm] = RefMapping(result.src.f[nm].id)
               /\ (result.src.f[nm].t = "list" /\ result.src.f[nm].items = <<Ref(PyStr(<<"n","7">>))>>) =>
                      result.out.m[nm] = PyList(<<RefMapping(result.src.f[nm].items[1].id)>>)
    /\ (result.op \in {"from_dict", "deserialize_node"} /\ result.src.t = "node"
            /\ result.out.t = "node") =>
           \A nm \in DOMAIN result.out.f \cap DOMAIN result.arg.m :
               DecodedRefs(result.arg.m[nm], result.out.f[nm])

\* a node holding a reference in a list came back from the decoder, and so
\* did a node holding a reference in a field
RefDecodedInsideNode ==
    /\ result.op = "from_dict"
    /\ result.src.t = "node"
    /\ result.out.t = "node"
    /\ \E nm \in DOMAIN result.out.f :
           /\ result.src.f[nm] = PyList(<<Ref(PyStr(<<"n","7">>))>>)
           /\ result.out.f[nm] = PyList(<<Ref(PyStr(<<"n","7">>))>>)


(***************************************************************************)
(* Properties of unions, containers, type parameters and equality          *)
(***************************************************************************)
\* the descriptors of the arguments of the annotation a, each on its own
ExtractedArgs(a) == [i \in 1..Len(a.args) |-> extract_type(a.args[i], RecursionLimit)]

\* C16: a union written with the explicit Union construct and one written
\* with the | operator both extract to Union with one descriptor per option
\* in declared order (int | str | float gives Union([Int, String, Float]))
UnionInDeclaredOrder ==
    (/\ result.op = "extract_type"
     /\ result.arg.k \in {"UnionType", "Union"}
     /\ result.arg \notin DOMAIN custom_types) =>
        LET options == ExtractedArgs(result.arg) IN
          /\ (\A i \in 1..Len(options) : ~IsError(options[i])) =>
                 /\ result.out.t = "typedef"
                 /\ result.out.cls = UnionType
                 /\ result.out.f[<<"o","p","t","i","o","n","s">>] = PyTuple(options)
          /\ (result.arg = Or(Or(Cls("int"), Cls("str")), Cls("float"))
                  /\ Cls("int") \notin DOMAIN custom_types) =>
                 result.out = UnionT(<<IntT, StrT, SimpleT(FloatType)>>)


RECURSIVE SameDescriptor(_, _)
\* structural equality of two values found in descriptors: same variant and
\* equal payload, the options of a Union compared without regard to order
SameDescriptor(a, b) ==
    IF a.t = "typedef" /\ b.t = "typedef" THEN
        /\ a.cls = b.cls
        /\ IF a.cls = UnionType
           THEN LET x == a.f[<<"o","p","t","i","o","n","s">>].items
                    y == b.f[<<"o","p","t","i","o","n","s">>].items IN
                  /\ Len(x) = Len(y)
                  /\ \A i \in 1..Len(x) : \E j \in 1..Len(y) : SameDescriptor(x[i], y[j])
                  /\ \A j \in 1..Len(y) : \E i \in 1..Len(x) : SameDescriptor(x[i], y[j])
           ELSE \A nm \in DOMAIN a.f : SameDescriptor(a.f[nm], b.f[nm])
    ELSE IF a.t = "tuple" /\ b.t = "tuple" THEN
        /\ Len(a.items) = Len(b.items)
        /\ \A i \in 1..Len(a.items) : SameDescriptor(a.items[i], b.items[i])
    ELSE a = b

\* C17: two descriptors compare equal exactly when their variant and payload
\* are equal, and two Union descriptors with the same options in a different
\* order compare equal
DescriptorEquality ==
    result.op = "eq" =>
        result.out = SameDescriptor(result.arg[1], result.arg[2])


\* the descriptor variant that belongs to each container
ContainerVariant(origin) ==
    CASE origin = "list" -> ListType
      [] origin = "set" -> SetType
      [] origin = "frozenset" -> FrozenSetType
      [] origin = "Sequence" -> SequenceType
      [] origin = "AbstractSet" -> AbstractSetType
      [] origin = "dict" -> DictType
      [] origin = "Mapping" -> MappingType

\* C18: a one-argument container (list, set, frozenset, sequence, abstract
\* set) applied to a number of arguments other than one, and a two-argument
\* container (dict, mapping) applied to a number other than two, fail with
\* an extraction error; with the right number the matching variant is
\* returned (list[int] is List(Int), dict[str, float] is Dict(String, Float))
ContainerArity ==
    (/\ result.op = "extract_type"
     /\ result.arg.k = "generic"
     /\ result.arg.origin \in OneArgContainers \cup TwoArgContainers
     /\ result.arg \notin DOMAIN custom_types) =>
        LET origin == result.arg.origin
            expected == IF origin \in OneArgContainers THEN 1 ELSE 2
            each == ExtractedArgs(result.arg) IN
          /\ Len(each) # expected => IsError(result.out)
          /\ (Len(each) = expected /\ \A i \in 1..expected : ~IsError(each[i])) =>
                 /\ result.out.t = "typedef"
                 /\ result.out.cls = ContainerVariant(origin)
                 /\ result.out.f = IF expected = 1
                                   THEN Fn1(<<"e","l","e","m","e","n","t">>, each[1])
                                   ELSE Fn2(<<"k","e","y">>, each[1],
                                            <<"v","a","l","u","e">>, each[2])
          /\ (result.arg = Generic("list", <<Cls("int")>>) /\ custom_types = <<>>) =>
                 result.out = ListT(IntT)
          /\ (result.arg = Generic("dict", <<Cls("str"), Cls("float")>>) /\ custom_types = <<>>) =>
                 result.out = DictT(StrT, SimpleT(FloatType))


\* the descriptor of a type variable: its name and the descriptor of its bound
ExpectedParameter(tv) ==
    TypeDefObj(TypeParameter,
               [nm \in {<<"n","a","m","e">>, <<"b","o","u","n","d">>} |->
                   IF nm = <<"n","a","m","e">> THEN PyStr(tv.name)
                   ELSE IF tv.bound = NoBound THEN PyNone
                   ELSE extract_type(tv.bound, RecursionLimit)])

\* the descriptors a container descriptor holds, in the order of its arguments
Components(d) ==
    IF d.cls = TupleType THEN d.f[<<"e","l","e","m","e","n","t","s">>].items
    ELSE IF <<"k","e","y">> \in DOMAIN d.f
    THEN <<d.f[<<"k","e","y">>], d.f[<<"v","a","l","u","e">>]>>
    ELSE <<d.f[<<"e","l","e","m","e","n","t">>]>>

\* C19: a type parameter extracts to TypeParameter(name, bound) with the
\* bound extracted or none, also where it is nested in containers (list[T],
\* list[dict[str, T]], dict[K, V])
TypeParameterExtracted ==
    result.op = "extract_type" =>
        LET a == result.arg
            out == result.out IN
          /\ a.k = "typevar" => out = ExpectedParameter(a)
          /\ (a.k = "generic" /\ a \notin DOMAIN custom_types /\ ~IsError(out)) =>
                 \A i \in 1..Len(Components(out)) :
                     a.args[i].k = "typevar" => Components(out)[i] = ExpectedParameter(a.args[i])
          /\ a = B => out = ParamT(<<"B">>, SimpleT(FloatType))
          /\ a = Generic("list", <<T>>) => out = ListT(ParamT(<<"T">>, PyNone))
          /\ a = Generic("list", <<Generic("dict", <<Cls("str"), T>>)>>) =>
                 out = ListT(DictT(StrT, ParamT(<<"T">>, PyNone)))
          /\ a = Generic("dict", <<K, V>>) =>
                 out = DictT(ParamT(<<"K">>, PyNone), ParamT(<<"V">>, PyNone))

\* a type variable that is also registered as a marker type was extracted
\* inside a nested container
NestedParameterExtracted ==
    /\ result.op = "extract_type"
    /\ T \in DOMAIN custom_types
    /\ result.arg = Generic("list", <<Generic("dict", <<Cls("str"), T>>)>>)
    /\ result.out = ListT(DictT(StrT, ParamT(<<"T">>, PyNone)))


\* the declared public fields of class c that are keys of the mapping data
PresentFields(c, data) ==
    {nm \in FieldNames(c) : nm[1] # "_" /\ nm \in DOMAIN data.m}

\* the declaration of the field nm of class c
FieldOf(c, nm) ==
    NanoClasses[c].fields[CHOOSE i \in 1..Len(NanoClasses[c].fields) :
                              NanoClasses[c].fields[i].name = nm]

\* C20: decode_node of a mapping with a registered tag constructs an
\* instance of exactly the kind registered under that tag; it sets precisely
\* the declared public fields that are keys of the mapping, each to its
\* decoded value, ignores the other keys, leaves an absent field to the
\* default of the kind, and fails when an absent field has no default
DecodeNodeByDeclaredFields ==
    (/\ result.op = "deserialize_node"
     /\ result.arg.t = "dict"
     /\ <<"t","a","g">> \in DOMAIN result.arg.m
     /\ result.arg.m[<<"t","a","g">>].t = "str"
     /\ result.arg.m[<<"t","a","g">>].s \in DOMAIN registry) =>
        LET data == result.arg
            c == registry[data.m[<<"t","a","g">>].s]
            present == PresentFields(c, data)
            decoded == [nm \in present |-> _deserialize_value(data.m[nm])]
            missing == {nm \in FieldNames(c) \ present : ~FieldOf(c, nm).has_default}
        IN
          IF \E nm \in present : IsError(decoded[nm]) THEN IsError(result.out)
          ELSE IF missing # {} THEN IsError(result.out)
          ELSE result.out =
                   NodeObj(c, [nm \in FieldNames(c) |->
                                  IF nm \in present THEN decoded[nm]
                                  ELSE FieldOf(c, nm).default])

(***************************************************************************)
(* Schemas of node kinds                                                   *)
(***************************************************************************)
\* the indices of the fields of kind c whose names do not start with "_"
PublicFields(c) ==
    {i \in 1..Len(NodeKinds[c].fields) : NodeKinds[c].fields[i].name[1] # "_"}

\* the annotations node_schema has to extract for kind c: the bounds of its
\* placeholders, the argument of its first Node base, its public fields
SchemaAnnotations(c) ==
    ({NodeKinds[c].type_params[i].bound : i \in 1..Len(NodeKinds[c].type_params)}
        \ {NoBound})
    \cup {get_args(NodeKinds[c].orig_bases[i])[1] :
              i \in {j \in {1} \cap DOMAIN NodeKinds[c].orig_bases :
                       Len(get_args(NodeKinds[c].orig_bases[j])) > 0}}
    \cup {NodeKinds[c].fields[i].type : i \in PublicFields(c)}

\* the returns a kind declares: the extraction of the explicit argument of
\* the Node application among its bases, the none primitive without one
DeclaredReturns(c) ==
    IF Len(NodeKinds[c].orig_bases) > 0 /\ Len(get_args(NodeKinds[c].orig_bases[1])) > 0
    THEN extract_type(get_args(NodeKinds[c].orig_bases[1])[1], RecursionLimit)
    ELSE NoneT

\* the schema out is the one the declaration of kind c describes
DescribesKind(out, c) ==
    LET kind == NodeKinds[c] IN
      /\ out.t = "schema"
      /\ out.tag \in DOMAIN registry /\ registry[out.tag] = c
      /\ Len(out.type_params) = Len(kind.type_params)
      /\ \A i \in 1..Len(kind.type_params) :
           out.type_params[i] =
               ParamT(kind.type_params[i].name,
                      IF kind.type_params[i].bound = NoBound THEN PyNone
                      ELSE extract_type(kind.type_params[i].bound, RecursionLimit))
      /\ Len(out.fields) = Cardinality(PublicFields(c))
      /\ \A i \in PublicFields(c) :
           LET at == Cardinality({j \in PublicFields(c) : j <= i}) IN
             /\ out.fields[at].name = kind.fields[i].name
             /\ out.fields[at].type = extract_type(kind.fields[i].type, RecursionLimit)
      /\ out.returns = DeclaredReturns(c)

RECURSIVE Structured(_)
\* v is a scalar, a list of structured values or a string-keyed mapping of
\* structured values
Structured(v) ==
    \/ v.t \in {"str", "int", "none"}
    \/ v.t = "list" /\ \A i \in 1..Len(v.items) : Structured(v.items[i])
    \/ v.t = "dict" /\ \A k \in DOMAIN v.m : Structured(v.m[k])

\* C22: the encoding of a node instance holds, at every depth, only scalars,
\* lists and string-keyed mappings, whatever its fields held
EncodedNodeIsStructured ==
    (result.op = "to_dict" /\ result.src.t = "node") => Structured(result.out)

(***************************************************************************)
(* Registered marker types                                                 *)
(***************************************************************************)
\* C23: a registered marker type (a class or a subscripted type; a type
\* variable is answered by the placeholder rule) extracts to exactly the
\* descriptor it was registered with, whatever structural rule it would
\* match, and a list of it extracts to a list of that descriptor
MarkerBypassesRules ==
    result.op = "extract_type" =>
        /\ (result.arg \in DOMAIN custom_types /\ result.arg.k # "typevar")
               => result.out = custom_types[result.arg]
        /\ \A m \in DOMAIN custom_types :
               (/\ m.k # "typevar"
                /\ result.arg = Generic("list", <<m>>)
                /\ result.arg \notin DOMAIN custom_types)
                   => result.out = ListT(custom_types[m])

\* markers that the primitive, container, node-kind and alias rules would
\* answer are registered, and a list of a list-marker has been extracted
NestedMarkerExtracted ==
    /\ result.op = "extract_type"
    /\ {Cls("int"), Generic("list", <<Cls("int")>>), NodeCls(1),
        AliasApp("Pair", <<Cls("int")>>)} \subseteq DOMAIN custom_types
    /\ result.arg = Generic("list", <<Generic("list", <<Cls("int")>>)>>)
    /\ result.out = ListT(SimpleT(DataFrameType))

(***************************************************************************)
(* Node kinds as value types                                               *)
(***************************************************************************)
\* Node(r), or the exception the extraction of r raised
NodeOf(r) == IF IsError(r) THEN r ELSE NodeT(r)

\* C24: a bare node kind extracts to Node(r), r being the returns the kind
\* declares (none without an explicit argument), and Node[A] extracts to
\* Node(extract(A)); no other rule answers for a node kind
NodeKindExtractsToNode ==
    (result.op = "extract_type" /\ result.arg \notin DOMAIN custom_types) =>
        /\ result.arg.k = "nodeclass" => result.out = NodeOf(DeclaredReturns(result.arg.cls))
        /\ result.arg = Cls("Node") => result.out = NodeT(NoneT)
        /\ (result.arg.k = "typing_generic" /\ result.arg.origin = Cls("Node"))
               => result.out = NodeOf(extract_type(result.arg.args[1], RecursionLimit - 1))

\* the bare generic kind Items[T](Node[list[T]]) has been extracted
BareGenericKindExtracted ==
    /\ result.op = "extract_type"
    /\ result.arg = NodeCls(2)
    /\ result.out = NodeT(ListT(ParamT(<<"T">>, PyNone)))

\* C25: a generic kind applied at a use site, K[A] with K[T](Node[F(T)]),
\* extracts to Node(extract(F(A))): the declared returns with the use-site
\* arguments substituted for the kind's placeholders
GenericKindSubstitutesArgument ==
    (/\ result.op = "extract_type"
     /\ result.arg \notin DOMAIN custom_types
     /\ result.arg.k = "typing_generic"
     /\ result.arg.origin.k = "nodeclass"
     /\ Len(NodeKinds[result.arg.origin.cls].type_params) > 0) =>
        LET kind == NodeKinds[result.arg.origin.cls]
            declared == get_args(kind.orig_bases[1])[1]
        IN result.out =
             NodeOf(extract_type(_substitute_type_params(declared, kind.type_params,
                                                         result.arg.args),
                                 RecursionLimit - 1))

(***************************************************************************)
(* References as value types                                               *)
(***************************************************************************)
\* C26: Ref[X] extracts to Ref(target = extract(X)), and the bare Ref type
\* extracts to Ref(target = none) instead of raising
RefExtractsToRefType ==
    (result.op = "extract_type" /\ result.arg \notin DOMAIN custom_types) =>
        /\ (result.arg.k = "typing_generic" /\ result.arg.origin = Cls("Ref")) =>
               LET target == extract_type(result.arg.args[1], RecursionLimit - 1)
               IN result.out = IF IsError(target) THEN target ELSE RefT(target)
        /\ result.arg = Cls("Ref") => result.out = RefT(NoneT)

(***************************************************************************)
(* Declaration does not extract                                            *)
(***************************************************************************)
\* C27: a class statement computes, validates and registers the tag whatever
\* the field annotations are; an annotation outside the grammar raises only
\* from node_schema or all_schemas, and those leave the registry as it was
DeclarationDoesNotExtract ==
    [][/\ result'.op = "declare" =>
            IF variant = "nanodsl" /\ ~_validate_tag(result'.tag)
            THEN /\ result'.out = Raised("ValueError:invalid_tag", result'.tag)
                 /\ registry' = registry
            ELSE IF Collides(registry, result'.tag, result'.cls)
            THEN /\ result'.out = Raised("ValueError:collision", result'.tag)
                 /\ registry' = registry
            ELSE /\ result'.out = PyNone
                 /\ result'.tag \in DOMAIN registry'
                 /\ registry'[result'.tag] = result'.cls
       /\ result'.op \in {"node_schema", "all_schemas"} =>
            /\ registry' = registry
            /\ cls_tag' = cls_tag
       /\ (/\ result'.op = "node_schema"
           /\ \E a \in SchemaAnnotations(result'.cls) :
                 IsError(extract_type(a, RecursionLimit))) =>
            IsError(result'.out)]_vars

\* a kind with a field annotated `object` is registered, and a schema request
\* made afterwards has raised
SchemaRequestRaisedAfterDeclaration ==
    /\ \E c \in DOMAIN cls_tag :
          /\ \E i \in 1..Len(NodeKinds[c].fields) : NodeKinds[c].fields[i].type = Cls("object")
          /\ registry[cls_tag[c]] = c
    /\ result.op \in {"node_schema", "all_schemas"}
    /\ IsError(result.out)

(***************************************************************************)
(* The registry of descriptor classes                                      *)
(***************************************************************************)
\* C28: the registry of descriptor classes is append-only: a tag that maps
\* to a class keeps mapping to that class, whatever is declared afterwards
TypeDefRegistryAppendOnly ==
    [][\A tag \in DOMAIN typedef_registry :
          /\ tag \in DOMAIN typedef_registry'
          /\ typedef_registry'[tag] = typedef_registry[tag]]_vars

(***************************************************************************)
(* Tags of distinct declarations                                           *)
(***************************************************************************)
\* the signature component values a class statement supplies, in order
Signature(c) ==
    IF variant = "typedsl" THEN SigParts(c)
    ELSE IF NanoClasses[c].has_tag THEN <<NanoClasses[c].tag>> ELSE <<>>

\* the name a class statement declares
DeclaredName(c) == IF variant = "typedsl" THEN SigClasses[c].name ELSE NanoClasses[c].name

\* C29: declarations with different signature components, or with none and
\* different names, get different tags: a declaration collides only with a
\* class of the same components and, without components, of the same name
DistinctSignaturesDistinctTags ==
    (/\ result.op = "declare"
     /\ result.out = Raised("ValueError:collision", result.tag)) =>
        /\ Signature(registry[result.tag]) = Signature(result.cls)
        /\ Signature(result.cls) = <<>> =>
              DeclaredName(registry[result.tag]) = DeclaredName(result.cls)

(***************************************************************************)
(* Dispatch between the two registries                                     *)
(***************************************************************************)
\* C30: from_dict decodes the encoding of a descriptor to a descriptor and
\* the encoding of a node to a node, whatever is registered, a node kind
\* under the tag of a descriptor class included
TagDispatchUnambiguous ==
    (result.op = "from_dict" /\ result.src.t \in {"typedef", "node"})
        => result.out.t = result.src.t

====
